---- MODULE Spec2Model ----
(***************************************************************************)
(* Plastermate: the LiDAR reconstruction pipeline.                         *)
(*                                                                         *)
(*   prog = "Ui"    process_lidar_data_and_generate_heatmap of             *)
(*                  src/PlastermateUi.py (per-level-min baseline)          *)
(*   prog = "Testt" the script src/Testt.py (global baseline = mean of the *)
(*                  per-level minimums); its numpy/math names are taken as *)
(*                  imported.                                              *)
(*                                                                         *)
(* A text line is a sequence of one-character strings; strip, split,       *)
(* isdigit, int and float are computed on the characters.  Numeric fields  *)
(* are drawn from integer literals, so every parsed value is finite.       *)
(* Lengths are kept in scaled integer millimetres (the scale of each       *)
(* quantity is stated where it is defined): the code's division by 1000    *)
(* to metres is a uniform change of unit applied to points and bin edges   *)
(* alike.  A quotient is kept exact as a pair <<numerator, denominator>>,  *)
(* 0/0 (numpy's NaN) being <<0, 0>>.                                       *)
(***************************************************************************)
EXTENDS Integers, Sequences, FiniteSets, TLC

\* ------------------------------------------------------------- bounds
MaxLines == 3
MaxBaseLines == 5
MaxGridPoints == 2
MaxSaves == 2

\* --------------------------------------------------- characters, text
Digits == {"0", "1", "2", "3", "4", "5", "6", "7", "8", "9"}

\* Characters for which str.isdigit() is true although int() rejects them
\* (Unicode category No with the Digit property, e.g. SUPERSCRIPT TWO).
SuperDigits == {"²"}

IsSpace(c) == c \in {" ", "\t", "\n", "\r"}

RECURSIVE LStrip(_)
LStrip(s) == IF s # <<>> /\ IsSpace(Head(s)) THEN LStrip(Tail(s)) ELSE s

RECURSIVE RStrip(_)
RStrip(s) ==
    IF s # <<>> /\ IsSpace(s[Len(s)]) THEN RStrip(SubSeq(s, 1, Len(s) - 1)) ELSE s

Strip(s) == RStrip(LStrip(s))

StartsWith(s, p) == Len(s) >= Len(p) /\ SubSeq(s, 1, Len(p)) = p

\* str.split(): fields separated by runs of whitespace, no empty field.
RECURSIVE SplitWsAcc(_, _, _)
SplitWsAcc(s, cur, acc) ==
    IF s = <<>> THEN (IF cur = <<>> THEN acc ELSE Append(acc, cur))
    ELSE IF IsSpace(Head(s))
         THEN SplitWsAcc(Tail(s), <<>>, IF cur = <<>> THEN acc ELSE Append(acc, cur))
         ELSE SplitWsAcc(Tail(s), Append(cur, Head(s)), acc)

SplitWs(s) == SplitWsAcc(s, <<>>, <<>>)

\* str.split(sep): fields separated by each sep, empty fields kept.
RECURSIVE SplitOnAcc(_, _, _, _)
SplitOnAcc(s, sep, cur, acc) ==
    IF s = <<>> THEN Append(acc, cur)
    ELSE IF Head(s) = sep
         THEN SplitOnAcc(Tail(s), sep, <<>>, Append(acc, cur))
         ELSE SplitOnAcc(Tail(s), sep, Append(cur, Head(s)), acc)

SplitOn(s, sep) == SplitOnAcc(s, sep, <<>>, <<>>)

\* str.isdigit(): non-empty and every character a digit character.
IsDigit(tok) ==
    tok # <<>> /\ \A i \in 1..Len(tok) : tok[i] \in Digits \cup SuperDigits

DigitVal(c) ==
    CASE c = "0" -> 0 [] c = "1" -> 1 [] c = "2" -> 2 [] c = "3" -> 3
      [] c = "4" -> 4 [] c = "5" -> 5 [] c = "6" -> 6 [] c = "7" -> 7
      [] c = "8" -> 8 [] c = "9" -> 9

RECURSIVE DecimalAcc(_, _)
DecimalAcc(s, acc) ==
    IF s = <<>> THEN acc ELSE DecimalAcc(Tail(s), 10 * acc + DigitVal(Head(s)))

Unsigned(tok) == tok # <<>> /\ \A i \in 1..Len(tok) : tok[i] \in Digits

HasSign(t) == t # <<>> /\ Head(t) \in {"-", "+"}

Magnitude(t) == IF HasSign(t) THEN Tail(t) ELSE t

\* int(tok) / float(tok) on integer literals: surrounding whitespace is
\* allowed, then an optional sign and decimal digits; anything else raises
\* ValueError (NumberParses is FALSE).
NumberParses(tok) == Unsigned(Magnitude(Strip(tok)))

NumberValue(tok) ==
    LET t == Strip(tok)
        m == DecimalAcc(Magnitude(t), 0)
    IN  IF HasSign(t) /\ Head(t) = "-" THEN 0 - m ELSE m

\* ------------------------------------------------------- input lines
LEVEL == <<"L", "e", "v", "e", "l">>

LnBlank      == <<" ">>
LnLevel0     == LEVEL \o <<" ", "0">>
LnLevel1     == LEVEL \o <<" ", "1">>
LnLevel2     == LEVEL \o <<" ", "2">>
LnLevelAbc   == LEVEL \o <<" ", "a", "b", "c">>
LnLevel12    == LEVEL \o <<" ", "1", " ", "2">>
LnLevelSup   == LEVEL \o <<" ", "²">>
Ln0_500      == <<"0", ",", "5", "0", "0">>
Ln0_600      == <<"0", ",", "6", "0", "0">>
Ln0_900      == <<"0", ",", "9", "0", "0">>
Ln0_1000     == <<"0", ",", "1", "0", "0", "0">>
Ln90_2000    == <<"9", "0", ",", "2", "0", "0", "0">>
Ln90_2200    == <<"9", "0", ",", "2", "2", "0", "0">>
Ln90_3000    == <<"9", "0", ",", "3", "0", "0", "0">>
Ln10_20_30   == <<"1", "0", ",", "2", "0", ",", "3", "0">>
Ln0_abc      == <<"0", ",", "a", "b", "c">>

\* Lines of the parser runs: every line kind the parser tells apart.
Catalogue ==
    { LnBlank, LnLevel0, LnLevel1, LnLevel2, LnLevelAbc, LnLevel12, LnLevelSup,
      Ln0_500, Ln0_600, Ln10_20_30, Ln0_abc }

\* Lines of the baseline runs: two levels, two distances.
BaseCatalogue == { LnLevel1, LnLevel2, Ln0_900, Ln0_1000 }

Files(lines, n) == UNION { [1..k -> lines] : k \in 0..n }

\* Files of the grid runs: one level declaration, then data lines whose points
\* lie inside, on the upper edge of, and outside the extent.
GridPoints == { Ln0_900, Ln0_1000, Ln90_2000, Ln90_2200, Ln90_3000 }

GridFiles ==
    { <<l>> \o f : l \in { LnLevel1, LnLevel2 }, f \in Files(GridPoints, MaxGridPoints) }

\* ------------------------------------------------------------- state
VARIABLES
    prog,            \* which program runs: "Ui" or "Testt"
    file,            \* the input text, a sequence of lines
    pos,             \* index of the next line the parse loop reads
    pc,              \* "parse", "generate", "done", "crashed"
    lvl,             \* Ui: <<>> for None, else <<level>>
    levels,          \* Ui: level of each reading
    azimuths,        \* Ui: azimuth of each reading
    dists,           \* Ui: distance of each reading
    src,             \* history: line index each Ui reading came from
    warnings,        \* st.warning calls, in order
    errors,          \* st.error calls, in order
    result,          \* "running", "None" (no figure) or "fig"
    X, Z,            \* Ui: projected coordinates
    base_per_level,  \* Ui: level -> baseline
    D,               \* Ui: deviation of each reading
    current_level,   \* Testt: <<>> for None, else <<level>>
    data,            \* Testt: level -> readings <<angle, distance, line index>>
    x_vals, y_vals, d_vals,   \* Testt: coordinates and distance per point
    base_distance,   \* Testt: <<sum of per-level minimums, their number>>
    d_devs,          \* Testt: deviation per point, <<numerator, denominator>>
    Ncount,          \* histogram2d: <<x bin, z bin>> of each point
    session_state,   \* the app: st.session_state, a record of its keys
    uploaded_file,   \* the app: the file uploader's value, <<>> for None
    rendered,        \* the app: the widgets the last script run drew
    history          \* history: the last event, successful saves, failures

vars ==
    << prog, file, pos, pc, lvl, levels, azimuths, dists, src, warnings, errors,
       result, X, Z, base_per_level, D, current_level, data, x_vals, y_vals,
       d_vals, base_distance, d_devs, Ncount,
       session_state, uploaded_file, rendered, history >>

appVars == << session_state, uploaded_file, rendered, history >>

pipelineVars ==
    << prog, file, pos, pc, lvl, levels, azimuths, dists, src, warnings, errors,
       result, X, Z, base_per_level, D, current_level, data, x_vals, y_vals,
       d_vals, base_distance, d_devs, Ncount >>

uiVars == << lvl, levels, azimuths, dists, src, warnings, errors, X, Z,
             base_per_level, D >>

testtVars == << current_level, data, x_vals, y_vals, d_vals, base_distance, d_devs >>

\* Session state initialization: the defaults of the keys (None is <<>>, a
\* value v is <<v>>; saved_scans is a function from names to figures).
SessionDefaults ==
    [ saved_scans              |-> <<>>,
      scan_counter             |-> 1,
      latest_run_figure        |-> <<>>,
      view_mode                |-> "none",
      selected_saved_scan_name |-> <<>>,
      just_saved               |-> FALSE,
      uploaded_file_state      |-> <<>> ]

\* What the first script run draws: no saved scan, no latest figure.
NothingRendered == [ options |-> {}, delete |-> <<>>, save |-> FALSE ]

NoEvent == [ ev |-> "load", input |-> <<>> ]

AppInit ==
    /\ session_state = SessionDefaults
    /\ uploaded_file = <<>>
    /\ rendered = NothingRendered
    /\ history = [ last |-> NoEvent, saves |-> 0, keyError |-> FALSE, notFound |-> FALSE ]

InitWith(files) ==
    /\ AppInit
    /\ prog \in {"Ui", "Testt"}
    /\ file \in files
    /\ pos = 1
    /\ pc = "parse"
    /\ lvl = <<>>
    /\ levels = <<>> /\ azimuths = <<>> /\ dists = <<>> /\ src = <<>>
    /\ warnings = <<>> /\ errors = <<>>
    /\ result = "running"
    /\ X = <<>> /\ Z = <<>>
    /\ base_per_level = <<>>
    /\ D = <<>>
    /\ current_level = <<>>
    /\ data = <<>>
    /\ x_vals = <<>> /\ y_vals = <<>> /\ d_vals = <<>>
    /\ base_distance = <<0, 1>>
    /\ d_devs = <<>>
    /\ Ncount = <<>>

Init == InitWith(Files(Catalogue, MaxLines))

InitBase == InitWith(Files(BaseCatalogue, MaxBaseLines))

InitGrid == InitWith(GridFiles)

\* ------------------------------------------------------------ helpers
Range(s) == { s[i] : i \in 1..Len(s) }

SetMin(S) == CHOOSE m \in S : \A x \in S : m <= x

RECURSIVE SeqSum(_)
SeqSum(s) == IF s = <<>> THEN 0 ELSE Head(s) + SeqSum(Tail(s))

\* [y for (x, y) in zip(xs, ys) if x == v]
RECURSIVE ZipFilter(_, _, _)
ZipFilter(xs, ys, v) ==
    IF xs = <<>> \/ ys = <<>> THEN <<>>
    ELSE (IF Head(xs) = v THEN <<Head(ys)>> ELSE <<>>)
         \o ZipFilter(Tail(xs), Tail(ys), v)

Msg(kind, text) == [kind |-> kind, text |-> text]

Warn(kind, text, level) == [kind |-> kind, text |-> text, level |-> level]

\* -------------------------------------------------- trigonometry, units
\* 10^4 * sin and cos of the motor elevation (level - 1) * 1.8 degrees.
SinE4(level) ==
    CASE level = 0 - 1 -> 0 - 628 [] level = 0 -> 0 - 314 [] level = 1 -> 0
      [] level = 2 -> 314 [] level = 3 -> 628

CosE4(level) ==
    CASE level = 0 - 1 -> 9980 [] level = 0 -> 9995 [] level = 1 -> 10000
      [] level = 2 -> 9995 [] level = 3 -> 9980

\* 2 * sin of the scan angle, for the angles whose sine is a multiple of 1/2.
SinA2(deg) ==
    CASE deg = 0 -> 0 [] deg = 30 -> 1 [] deg = 90 -> 2
      [] deg = 0 - 30 -> 0 - 1 [] deg = 0 - 90 -> 0 - 2

\* x_mm = r * cos(theta_e) * sin(theta_a), in units of 1/20000 mm.
XOf(level, azi_deg, r) == r * CosE4(level) * SinA2(azi_deg)

\* z_mm = r * sin(theta_e), in units of 1/10000 mm.
ZOf(level, r) == r * SinE4(level)

\* ----------------------------------------------------------- the grids
nx == 200
nz == 200

\* xb = linspace(-2.2, 2.2, nx + 1): edge e in 0..nx, in units of 1/20000 mm.
xb(e) == (22 * e - 2200) * 20000

\* zb = linspace(0, 2.2, nz + 1): edge e in 0..nz, in units of 1/10000 mm.
zb(e) == (11 * e) * 10000

Tnx == 200
ny == 10

\* x_bins = linspace(-2.0, 2.0, nx + 1), in units of 1/2 mm.
x_bins(e) == (20 * e - 2000) * 2

\* y_bins = linspace(0.0, 2.0, ny + 1), in mm.
y_bins(e) == 200 * e

\* np.histogram2d's bin of a value v over n uniform bins from lo to lo + n*step:
\* searchsorted(edges, v, side='right'), minus one when v is the last edge.
\* 0 and n + 1 are the outlier bins, which the returned histogram leaves out.
BinIndexOpen(v, lo, step, n) ==
    IF v < lo THEN 0
    ELSE IF v >= lo + n * step THEN n + 1
    ELSE ((v - lo) \div step) + 1

BinIndex(v, lo, step, n) ==
    IF v < lo THEN 0
    ELSE IF v = lo + n * step THEN n
    ELSE IF v > lo + n * step THEN n + 1
    ELSE ((v - lo) \div step) + 1

UiBin(x, z) ==
    << BinIndex(x, xb(0), xb(1) - xb(0), nx), BinIndex(z, zb(0), zb(1) - zb(0), nz) >>

TesttBin(x, y) ==
    << BinIndex(x, x_bins(0), x_bins(1) - x_bins(0), Tnx),
       BinIndex(y, y_bins(0), y_bins(1) - y_bins(0), ny) >>

InCell(i, j) == { k \in 1..Len(Ncount) : Ncount[k] = <<i, j>> }

RECURSIVE SumOver(_, _)
SumOver(f, S) ==
    IF S = {} THEN 0
    ELSE LET k == CHOOSE k \in S : TRUE IN f[k] + SumOver(f, S \ {k})

\* H_count[i, j]: number of points binned into cell (i, j), 1 <= i <= nx, 1 <= j <= nz.
H_count(i, j) == Cardinality(InCell(i, j))

\* H_sum[i, j]: sum of the weights D of the points binned into cell (i, j).
H_sum(i, j) == SumOver(D, InCell(i, j))

\* H_dev = H_sum / H_count, exact.  A cell without points has sum 0 and
\* count 0: 0/0, numpy's NaN, kept as <<0, 0>>.
H_dev(i, j) ==
    LET c == H_count(i, j) IN IF c = 0 THEN <<0, 0>> ELSE << H_sum(i, j), c >>

H_unfilled(i, j) == H_dev(i, j)

\* H_filled = nan_to_num(H_dev, nan=0.0)
H_filled(i, j) == LET q == H_dev(i, j) IN IF q = <<0, 0>> THEN <<0, 1>> ELSE q

\* --------------------------------------------- PlastermateUi.py: parse
IsLevelLine(line) == StartsWith(line, LEVEL)

\* not (len(parts) != 2 or not parts[1].isdigit())
LevelPartsOk(parts) == Len(parts) = 2 /\ IsDigit(parts[2])

\* not (len(parts) != 2)
DataPartsOk(parts) == Len(parts) = 2

\* a, d = map(float, parts) raises no ValueError
DataNumeric(parts) == NumberParses(parts[1]) /\ NumberParses(parts[2])

\* lvl = int(parts[1])
LevelOfZeroBased(parts) == NumberValue(parts[2]) - 1

LevelOf(parts) == NumberValue(parts[2])

\* else: st.warning(...) for a data line before the first level
OrphanFatal(line) == [kind |-> "abort", msgs |-> << Msg("data", line) >>]

OrphanOutcome(line) == [kind |-> "warn"]

\* What one iteration of the parse loop does with the stripped line, given
\* lvl: "skip", "level" (value), "reading" (a, d), "warn", or "abort" with the
\* st.error messages reported before return None.
UiLine(line, lv) ==
    IF line = <<>> THEN [kind |-> "skip"]
    ELSE IF IsLevelLine(line) THEN
        LET parts == SplitWs(line) IN
        IF ~LevelPartsOk(parts)
        THEN [kind |-> "abort", msgs |-> << Msg("level", line) >>]
        ELSE IF ~NumberParses(parts[2])
        \* int(parts[1]) raises ValueError, caught by `except Exception`:
        \* the message quotes the token, and the traceback follows.
        THEN [kind |-> "abort",
              msgs |-> << Msg("unexpected", parts[2]), Msg("traceback", parts[2]) >>]
        ELSE [kind |-> "level", value |-> LevelOf(parts)]
    ELSE IF lv # <<>> THEN
        LET parts == SplitOn(line, ",") IN
        IF ~DataPartsOk(parts)
        THEN [kind |-> "abort", msgs |-> << Msg("data", line) >>]
        ELSE IF ~DataNumeric(parts)
        THEN [kind |-> "abort", msgs |-> << Msg("convert", line) >>]
        ELSE [kind |-> "reading", a |-> NumberValue(parts[1]), d |-> NumberValue(parts[2])]
    ELSE OrphanOutcome(line)

UiParseLine ==
    /\ prog = "Ui" /\ pc = "parse" /\ pos <= Len(file)
    /\ LET line == Strip(file[pos])
           out  == UiLine(line, lvl)
       IN  /\ lvl' = IF out.kind = "level" THEN << out.value >> ELSE lvl
           /\ levels' = IF out.kind = "reading" THEN Append(levels, lvl[1]) ELSE levels
           /\ azimuths' = IF out.kind = "reading" THEN Append(azimuths, out.a) ELSE azimuths
           /\ dists' = IF out.kind = "reading" THEN Append(dists, out.d) ELSE dists
           /\ src' = IF out.kind = "reading" THEN Append(src, pos) ELSE src
           /\ warnings' = IF out.kind = "warn"
                          THEN Append(warnings, Warn("orphan", line, 0))
                          ELSE warnings
           /\ errors' = IF out.kind = "abort" THEN errors \o out.msgs ELSE errors
           /\ result' = IF out.kind = "abort" THEN "None" ELSE result
           /\ pc' = IF out.kind = "abort" THEN "done" ELSE pc
           /\ pos' = IF out.kind = "abort" THEN pos ELSE pos + 1
    /\ UNCHANGED << prog, file, X, Z, base_per_level, D, Ncount >>
    /\ UNCHANGED testtVars
    /\ UNCHANGED appVars

\* ------------------------------------ PlastermateUi.py: after the loop
unique_levels(ls) == Range(ls)

SetMax(S) == CHOOSE m \in S : \A x \in S : m >= x

BasePerLevelMax(ls, ds) ==
    [ lvl_val \in unique_levels(ls) |->
        LET level_dists == ZipFilter(ls, ds, lvl_val)
        IN  IF level_dists = <<>> THEN 0 ELSE SetMax(Range(level_dists)) ]

\* base_per_level: per-level minimum, 0 for a level without distances.
BasePerLevel(ls, ds) ==
    [ lvl_val \in unique_levels(ls) |->
        LET level_dists == ZipFilter(ls, ds, lvl_val)
        IN  IF level_dists = <<>> THEN 0 ELSE SetMin(Range(level_dists)) ]

\* The st.warning calls of the baseline loop.
BaseWarnings(ls, ds) ==
    { Warn("nodist", <<>>, lvl_val) :
        lvl_val \in { l \in unique_levels(ls) : ZipFilter(ls, ds, l) = <<>> } }

DeviationsGlobalMin(ls, ds, base) ==
    [ k \in 1..Len(ls) |-> ds[k] - SetMin({ base[l] : l \in DOMAIN base }) ]

\* D: r - base_per_level[l], 0 for a level without a baseline.
Deviations(ls, ds, base) ==
    [ k \in 1..Len(ls) |->
        IF ls[k] \in DOMAIN base THEN ds[k] - base[ls[k]] ELSE 0 ]

RECURSIVE SetToSeq(_)
SetToSeq(S) ==
    IF S = {} THEN <<>>
    ELSE LET x == CHOOSE x \in S : TRUE IN <<x>> \o SetToSeq(S \ {x})

\* (The test `if not unique_levels` of lines 90-92 follows `if not levels`
\* and set(levels) is empty only when levels is: it never fires.)
NoDataNever(ls) == FALSE

\* if not levels
NoData(ls) == ls = <<>>

UiGenerate ==
    /\ prog = "Ui" /\ pc = "parse" /\ pos > Len(file)
    /\ pc' = "done"
    /\ IF NoData(levels)
       THEN /\ errors' = Append(errors, Msg("nodata", <<>>))
            /\ result' = "None"
            /\ UNCHANGED << X, Z, base_per_level, D, Ncount, warnings >>
       ELSE LET Xn == [ k \in 1..Len(levels) |-> XOf(levels[k], azimuths[k], dists[k]) ]
                Zn == [ k \in 1..Len(levels) |-> ZOf(levels[k], dists[k]) ]
                base == BasePerLevel(levels, dists)
            IN  /\ X' = Xn
                /\ Z' = Zn
                /\ base_per_level' = base
                /\ warnings' = warnings \o SetToSeq(BaseWarnings(levels, dists))
                /\ D' = Deviations(levels, dists, base)
                /\ Ncount' = [ k \in 1..Len(levels) |-> UiBin(Xn[k], Zn[k]) ]
                /\ errors' = errors
                /\ result' = "fig"
    /\ UNCHANGED << prog, file, pos, lvl, levels, azimuths, dists, src >>
    /\ UNCHANGED testtVars
    /\ UNCHANGED appVars

\* ---------------------------------------------------- Testt.py: parse
\* try: current_level = int(parts[1]); except: current_level = None
TesttLevel(parts) ==
    IF Len(parts) >= 2 /\ NumberParses(parts[2]) THEN << NumberValue(parts[2]) >> ELSE <<>>

\* len(parts) != 2 or current_level is None: continue
TesttSkips(parts, cl) == Len(parts) # 2 \/ cl = <<>>

TParseLine ==
    /\ prog = "Testt" /\ pc = "parse" /\ pos <= Len(file)
    /\ LET line == Strip(file[pos]) IN
       IF line = <<>>
       THEN /\ pos' = pos + 1
            /\ UNCHANGED << current_level, data, pc, result, errors >>
       ELSE IF StartsWith(line, LEVEL)
       THEN LET cl == TesttLevel(SplitWs(line)) IN
            /\ current_level' = cl
            /\ data' = IF cl # <<>> THEN (cl[1] :> <<>>) @@ data ELSE data
            /\ pos' = pos + 1
            /\ UNCHANGED << pc, result, errors >>
       ELSE LET parts == SplitOn(line, ",") IN
            IF TesttSkips(parts, current_level)
            THEN /\ pos' = pos + 1
                 /\ UNCHANGED << current_level, data, pc, result, errors >>
            ELSE IF ~DataNumeric(parts)
            \* float() raises ValueError and nothing catches it
            THEN /\ pc' = "crashed"
                 /\ result' = "None"
                 /\ errors' = Append(errors, Msg("ValueError", line))
                 /\ UNCHANGED << pos, current_level, data >>
            ELSE /\ data' = [ data EXCEPT ![current_level[1]] =
                                Append(@, << NumberValue(parts[1]), NumberValue(parts[2]), pos >>) ]
                 /\ pos' = pos + 1
                 /\ UNCHANGED << current_level, pc, result, errors >>
    /\ UNCHANGED << prog, file, lvl, levels, azimuths, dists, src, warnings,
                    X, Z, base_per_level, D, Ncount >>
    /\ UNCHANGED << x_vals, y_vals, d_vals, base_distance, d_devs >>
    /\ UNCHANGED appVars

\* ------------------------------------------- Testt.py: after the loop
\* for level, readings in sorted(data.items()): the points <<level, angle, dist>>
RECURSIVE TesttPoints(_, _)
TesttPoints(d, S) ==
    IF S = {} THEN <<>>
    ELSE LET l == SetMin(S)
         IN  [ k \in 1..Len(d[l]) |-> << l, d[l][k][1], d[l][k][2] >> ]
             \o TesttPoints(d, S \ {l})

\* base_distances: the minimum distance of each level that has readings
RECURSIVE BaseDistances(_, _)
BaseDistances(d, S) ==
    IF S = {} THEN <<>>
    ELSE LET l == SetMin(S)
         IN  (IF d[l] # <<>> THEN << SetMin({ r[2] : r \in Range(d[l]) }) >> ELSE <<>>)
             \o BaseDistances(d, S \ {l})

\* base_distance = sum(base_distances) / len(base_distances), else 0
BaseDistance(d) ==
    LET bs == BaseDistances(d, DOMAIN d)
    IN  IF bs # <<>> THEN << SeqSum(bs), Len(bs) >> ELSE <<0, 1>>

\* d - base_distance, exact
DDev(dist, base) == << dist * base[2] - base[1], base[2] >>

TGenerate ==
    /\ prog = "Testt" /\ pc = "parse" /\ pos > Len(file)
    /\ LET pts  == TesttPoints(data, DOMAIN data)
           xs   == [ k \in 1..Len(pts) |-> pts[k][3] * SinA2(pts[k][2]) ]
           ys   == [ k \in 1..Len(pts) |-> (pts[k][1] - 1) * 200 ]
           base == BaseDistance(data)
       IN  /\ x_vals' = xs
           /\ y_vals' = ys
           /\ d_vals' = [ k \in 1..Len(pts) |-> pts[k][3] ]
           /\ base_distance' = base
           /\ d_devs' = [ k \in 1..Len(pts) |-> DDev(pts[k][3], base) ]
           /\ Ncount' = [ k \in 1..Len(pts) |-> TesttBin(xs[k], ys[k]) ]
    /\ result' = "fig"
    /\ pc' = "done"
    /\ UNCHANGED << prog, file, pos, current_level, data, errors >>
    /\ UNCHANGED uiVars
    /\ UNCHANGED appVars

\* ------------------------------------------------------ specification
Next == UiParseLine \/ UiGenerate \/ TParseLine \/ TGenerate

Spec == Init /\ [][Next]_vars

SpecBase == InitBase /\ [][Next]_vars

SpecGrid == InitGrid /\ [][Next]_vars

Finished == pc = "done" /\ result = "fig"

\* --------------------------------------- the input, read independently
Line(i) == Strip(file[i])

IsBlankLine(i) == Line(i) = <<>>

IsLevelDecl(i) == StartsWith(Line(i), LEVEL)

LevelTokens(i) == SplitWs(Line(i))

Fields(i) == SplitOn(Line(i), ",")

LevelBefore(i) == \E j \in 1..(i - 1) : IsLevelDecl(j)

\* A level declaration without exactly two tokens or with a second token that
\* is not an integer.
BadLevelLine(i) ==
    IsLevelDecl(i) /\ (Len(LevelTokens(i)) # 2 \/ ~NumberParses(LevelTokens(i)[2]))

\* A data line after a level declaration without exactly two numeric fields.
BadDataLine(i) ==
    /\ ~IsBlankLine(i) /\ ~IsLevelDecl(i) /\ LevelBefore(i)
    /\ \/ Len(Fields(i)) # 2
       \/ ~NumberParses(Fields(i)[1])
       \/ ~NumberParses(Fields(i)[2])

\* A data line before any level declaration.
OrphanLine(i) == ~IsBlankLine(i) /\ ~IsLevelDecl(i) /\ ~LevelBefore(i)

\* The last level declaration before line i (0 when there is none).
LastDecl(i) ==
    LET ds == { j \in 1..(i - 1) : IsLevelDecl(j) }
    IN  IF ds = {} THEN 0 ELSE CHOOSE j \in ds : \A x \in ds : x <= j

\* The Ui parse loop has returned from line i.
AbortedAt(i) == pos = i /\ pc = "done"

NamesLine(i) == \E e \in 1..Len(errors) : errors[e].text = Line(i)

\* ------------------------------------------------ parser claims (Spec)

\* C1: in the Ui parser every malformed level declaration and every
\* malformed data line after a level declaration aborts the run: the parse
\* never passes the line, no figure is returned, and an error naming that
\* exact line is reported.
C1_MalformedLineAborts ==
    prog = "Ui" =>
        \A i \in 1..Len(file) :
            (BadLevelLine(i) \/ BadDataLine(i)) =>
                /\ pos <= i
                /\ result # "fig"
                /\ AbortedAt(i) => (result = "None" /\ NamesLine(i))

\* The extent of C1's failure: the abort itself always happens, and the error
\* names the line except when the second token passes isdigit() and int()
\* rejects it.
C1_AbortsNamingLineUnlessIsdigitOnly ==
    prog = "Ui" =>
        \A i \in 1..Len(file) :
            (BadLevelLine(i) \/ BadDataLine(i)) =>
                /\ pos <= i
                /\ result # "fig"
                /\ AbortedAt(i) =>
                      /\ result = "None" /\ errors # <<>>
                      /\ NamesLine(i) \/ (IsLevelDecl(i) /\ Len(LevelTokens(i)) = 2
                                            /\ IsDigit(LevelTokens(i)[2]))

\* C2: in the Ui parser a data line before any level declaration is never
\* fatal: the run does not end at it, it yields one warning naming it and no
\* reading, and a run whose parse ends with readings returns its figure;
\* "0,500 / Level 1 / 0,600" ends with one reading (level 1, distance 600),
\* one warning and a figure.
C2_OrphanLineSkipped ==
    prog = "Ui" =>
        /\ \A i \in 1..Len(file) :
              OrphanLine(i) =>
                 /\ ~AbortedAt(i)
                 /\ \A k \in 1..Len(src) : src[k] # i
        /\ LET seen == { i \in 1..Len(file) : OrphanLine(i) /\ i < pos }
           IN  /\ Len(warnings) = Cardinality(seen)
               /\ \A w \in 1..Len(warnings) :
                     /\ warnings[w].kind = "orphan"
                     /\ \E i \in seen : warnings[w].text = Line(i)
        /\ (pc = "done" /\ pos > Len(file) /\ levels # <<>>) => result = "fig"
        /\ (pc = "done" /\ file = << Ln0_500, LnLevel1, Ln0_600 >>) =>
              /\ levels = <<1>> /\ azimuths = <<0>> /\ dists = <<600>>
              /\ Len(warnings) = 1
              /\ errors = <<>> /\ result = "fig"

C2_Witness ==
    /\ prog = "Ui" /\ pc = "done"
    /\ file = << Ln0_500, LnLevel1, Ln0_600 >>
    /\ warnings = << Warn("orphan", Ln0_500, 0) >>
    /\ dists = <<600>>

\* Testt.py's readings as <<level, angle, distance, line index>>.
TesttReadings ==
    UNION { { << l, data[l][k][1], data[l][k][2], data[l][k][3] >> : k \in 1..Len(data[l]) } :
            l \in DOMAIN data }

\* Reading (level, a, d) taken from line i carries the level of the last
\* level declaration before i and the two fields of line i.
ReadingOfLine(level, a, d, i) ==
    /\ i \in 1..Len(file)
    /\ ~IsBlankLine(i) /\ ~IsLevelDecl(i)
    /\ Len(Fields(i)) = 2
    /\ a = NumberValue(Fields(i)[1]) /\ d = NumberValue(Fields(i)[2])
    /\ LastDecl(i) # 0
    /\ LET toks == LevelTokens(LastDecl(i))
       IN  Len(toks) >= 2 /\ NumberParses(toks[2]) /\ level = NumberValue(toks[2])

\* C3: in both parsers every accepted reading carries the level of the most
\* recent level declaration before its line (so none is accepted before a
\* declaration), and each line yields at most one reading, held under one
\* level.
C3_ReadingHasDeclaredLevel ==
    /\ prog = "Ui" =>
          /\ Len(levels) = Len(src) /\ Len(azimuths) = Len(src) /\ Len(dists) = Len(src)
          /\ \A k \in 1..Len(src) :
                /\ ReadingOfLine(levels[k], azimuths[k], dists[k], src[k])
                /\ src[k] < pos
                /\ \A m \in 1..Len(src) : m < k => src[m] < src[k]
    /\ prog = "Testt" =>
          /\ \A r \in TesttReadings : ReadingOfLine(r[1], r[2], r[3], r[4]) /\ r[4] < pos
          /\ \A r1, r2 \in TesttReadings : r1[4] = r2[4] => r1 = r2
          /\ \A l \in DOMAIN data :
                \A k, m \in 1..Len(data[l]) : m < k => data[l][m][3] < data[l][k][3]

\* A reading after two declarations: it carries the second one's level.
C3_Witness ==
    /\ prog = "Ui" /\ pc = "done"
    /\ file = << LnLevel1, LnLevel2, Ln0_600 >>
    /\ levels = <<2>> /\ src = <<3>>

\* C4: the Ui parser accepts a level declaration only for a level >= 1, so
\* every reading it accepts has level >= 1.
C4_LevelsAtLeastOne ==
    prog = "Ui" => \A k \in 1..Len(levels) : levels[k] >= 1

\* C5: a Ui run that scanned every line without a fatal parse error and found
\* no valid reading ends with the "no data" error and no grid.
C5_NoDataIsFatal ==
    (/\ prog = "Ui" /\ pc = "done" /\ pos > Len(file)
     /\ \A i \in 1..Len(file) : IsBlankLine(i) \/ IsLevelDecl(i) \/ OrphanLine(i))
    => /\ result = "None"
       /\ errors = << Msg("nodata", <<>>) >>
       /\ X = <<>> /\ Z = <<>> /\ D = <<>> /\ Ncount = <<>>

\* A blank line, an orphan data line and a level declaration: no reading.
C5_Witness ==
    /\ prog = "Ui" /\ pc = "done"
    /\ file = << LnBlank, Ln0_500, LnLevel1 >>
    /\ result = "None"

\* The level numbers the input declares.
DeclaredLevels ==
    { NumberValue(LevelTokens(i)[2]) : i \in { j \in 1..Len(file) : IsLevelDecl(j) } }

\* C8: in a Ui run that returned its figure every declared level has a
\* baseline entry, and a declared level without readings has baseline 0 and a
\* recorded warning.
C8_DeclaredLevelsHaveBaseline ==
    (prog = "Ui" /\ Finished) =>
        \A l \in DeclaredLevels :
            /\ l \in DOMAIN base_per_level
            /\ l \notin Range(levels) =>
                  /\ base_per_level[l] = 0
                  /\ \E w \in 1..Len(warnings) :
                        warnings[w].kind = "nodist" /\ warnings[w].level = l

\* ---------------------------------------------- baseline claims (SpecBase)
\* The minimum distance among the readings of level l, from the parsed lists.
UiLevelMin(l) == SetMin({ dists[k] : k \in { m \in 1..Len(levels) : levels[m] = l } })

TesttLevelsWithReadings == { l \in DOMAIN data : data[l] # <<>> }

TesttLevelMin(l) == SetMin({ data[l][k][2] : k \in 1..Len(data[l]) })

\* base_distance <= v, exactly
BaseAtMost(v) == base_distance[1] <= v * base_distance[2]

BaseAtLeast(v) == base_distance[1] >= v * base_distance[2]

\* C6 as stated: in both baseline modes the baseline applied to a level with
\* readings is <= the minimum distance of that level's readings, and equal to
\* it in per-level-min mode.
C6_BaselineAtMostLevelMin ==
    Finished =>
        /\ prog = "Ui" =>
              \A l \in Range(levels) :
                  l \in DOMAIN base_per_level /\ base_per_level[l] = UiLevelMin(l)
        /\ prog = "Testt" =>
              \A l \in TesttLevelsWithReadings : BaseAtMost(TesttLevelMin(l))

\* C6 amended: the per-level baseline equals the level's minimum distance;
\* the global baseline is the mean of the per-level minimums, so it lies
\* between the smallest and the largest of them and is <= a level's minimum
\* exactly for the levels whose minimum is at least that mean.
C6_BaselineAmended ==
    Finished =>
        /\ prog = "Ui" =>
              \A l \in Range(levels) :
                  l \in DOMAIN base_per_level /\ base_per_level[l] = UiLevelMin(l)
        /\ (prog = "Testt" /\ TesttLevelsWithReadings # {}) =>
              LET mins == [ l \in TesttLevelsWithReadings |-> TesttLevelMin(l) ]
                  n    == Cardinality(TesttLevelsWithReadings)
                  tot  == SumOver(mins, TesttLevelsWithReadings)
              IN  /\ base_distance[2] > 0
                  /\ base_distance[1] * n = tot * base_distance[2]
                  /\ \A l \in TesttLevelsWithReadings :
                        BaseAtMost(mins[l]) <=> (n * mins[l] >= tot)
                  /\ \E l \in TesttLevelsWithReadings : BaseAtMost(mins[l])
                  /\ \E l \in TesttLevelsWithReadings : BaseAtLeast(mins[l])

\* Testt.py with minimums 1000 and 900: the baseline 950 exceeds level 2's
\* minimum.
C6_Witness ==
    /\ prog = "Testt" /\ Finished
    /\ file = << LnLevel1, Ln0_1000, LnLevel2, Ln0_900 >>
    /\ base_distance = <<1900, 2>>
    /\ ~BaseAtMost(TesttLevelMin(2))

\* C7: in a Ui run every reading's deviation is its distance minus the
\* minimum distance of the readings of its own level (farther: positive;
\* equal to the minimum: 0), whatever the other levels hold; "Level 1: 1000,
\* 1000; Level 2: 900" gives baselines {1: 1000, 2: 900} and deviations 0, 0, 0.
C7_DeviationFromOwnLevel ==
    (prog = "Ui" /\ Finished) =>
        /\ Len(D) = Len(dists)
        /\ \A k \in 1..Len(dists) :
              /\ D[k] = dists[k] - UiLevelMin(levels[k])
              /\ D[k] >= 0
              /\ dists[k] = UiLevelMin(levels[k]) => D[k] = 0
        /\ file = << LnLevel1, Ln0_1000, Ln0_1000, LnLevel2, Ln0_900 >> =>
              /\ base_per_level = (1 :> 1000) @@ (2 :> 900)
              /\ D = <<0, 0, 0>>

C7_Witness ==
    /\ prog = "Ui" /\ Finished
    /\ file = << LnLevel1, Ln0_1000, Ln0_1000, LnLevel2, Ln0_900 >>
    /\ D = <<0, 0, 0>>
    /\ levels = <<1, 1, 2>>

\* ------------------------------------------------ grid claims (SpecGrid)
\* The points handed to histogram2d, and the edges, of the running program.
PX == IF prog = "Ui" THEN X ELSE x_vals
PZ == IF prog = "Ui" THEN Z ELSE y_vals
EdgeX(e) == IF prog = "Ui" THEN xb(e) ELSE x_bins(e)
EdgeZ(e) == IF prog = "Ui" THEN zb(e) ELSE y_bins(e)
BinsX == IF prog = "Ui" THEN nx ELSE Tnx
BinsZ == IF prog = "Ui" THEN nz ELSE ny

\* v lies in bin i of n: right-open, the final bin closed.
InBinX(v, i) == (EdgeX(i - 1) <= v /\ v < EdgeX(i)) \/ (i = BinsX /\ v = EdgeX(BinsX))
InBinZ(v, j) == (EdgeZ(j - 1) <= v /\ v < EdgeZ(j)) \/ (j = BinsZ /\ v = EdgeZ(BinsZ))

StrictlyOutside(k) ==
    \/ PX[k] < EdgeX(0) \/ PX[k] > EdgeX(BinsX)
    \/ PZ[k] < EdgeZ(0) \/ PZ[k] > EdgeZ(BinsZ)

\* Sum of H_count over the cells (i, lo..hi), and over the columns lo..hi.
RECURSIVE ColumnCount(_, _, _)
ColumnCount(i, lo, hi) ==
    IF lo = hi THEN H_count(i, lo)
    ELSE LET mid == (lo + hi) \div 2
         IN  ColumnCount(i, lo, mid) + ColumnCount(i, mid + 1, hi)

RECURSIVE GridCount(_, _)
GridCount(lo, hi) ==
    IF lo = hi THEN ColumnCount(lo, 1, BinsZ)
    ELSE LET mid == (lo + hi) \div 2
         IN  GridCount(lo, mid) + GridCount(mid + 1, hi)

\* C9: when a run has produced its figure, every point inside the extent lies
\* in exactly one cell (bins right-open, the last bin closed) and is counted
\* there, and the per-cell counts sum to the number of readings minus those
\* strictly outside the extent.
C9_CountsRoundTrip ==
    Finished =>
        /\ \A k \in 1..Len(PX) :
              ~StrictlyOutside(k) =>
                 /\ Cardinality({ i \in 1..BinsX : InBinX(PX[k], i) }) = 1
                 /\ Cardinality({ j \in 1..BinsZ : InBinZ(PZ[k], j) }) = 1
                 /\ InBinX(PX[k], Ncount[k][1]) /\ InBinZ(PZ[k], Ncount[k][2])
        /\ GridCount(1, BinsX) = Len(PX) - Cardinality({ k \in 1..Len(PX) : StrictlyOutside(k) })
        /\ prog = "Ui" => Len(PX) = Len(levels)

\* A Ui run with one point on the upper x edge (counted in the last bin) and
\* one strictly outside (dropped).
C9_Witness ==
    /\ prog = "Ui" /\ Finished
    /\ file = << LnLevel1, Ln90_2200, Ln90_3000 >>
    /\ Ncount = << <<nx, 1>>, <<nx + 1, 1>> >>
    /\ H_count(nx, 1) = 1

\* C10: in a Ui run that produced its figure, every cell's pre-smoothing
\* value is (sum of the deviations of the points in the cell) / (their number)
\* when the cell holds a point and 0 when it holds none; a run whose parse
\* succeeded with readings produces its figure even when no point is inside
\* the extent.
C10_CellMean ==
    /\ (prog = "Ui" /\ Finished) =>
          \A i \in 1..nx :
             LET col == { k \in 1..Len(X) : InBinX(X[k], i) } IN
             \A j \in 1..nz :
                LET pts == { k \in col : InBinZ(Z[k], j) }
                    v   == H_filled(i, j)
                IN  IF pts = {} THEN v = <<0, 1>>
                    ELSE v[2] > 0 /\ v[1] * Cardinality(pts) = SumOver(D, pts) * v[2]
    /\ (prog = "Ui" /\ pc = "done" /\ pos > Len(file) /\ levels # <<>>) => result = "fig"

\* Two readings of level 1 in one cell with deviations 0 and 100: mean 100/2.
C10_Witness ==
    /\ prog = "Ui" /\ Finished
    /\ file = << LnLevel1, Ln0_900, Ln0_1000 >>
    /\ H_filled(101, 1) = <<100, 2>>
    /\ H_filled(100, 1) = <<0, 1>>


\* ---------------------------------------------------------------------------
\* The Streamlit app of PlastermateUi.py: session state over user events.
\* Every event reruns the script from the top; a button is True only in the
\* rerun its click caused, and only if that run draws it; st.rerun() abandons
\* the run and starts a fresh one with no click.
\* ---------------------------------------------------------------------------

DigitChars == <<"0", "1", "2", "3", "4", "5", "6", "7", "8", "9">>

\* str(n) of a natural number.
RECURSIVE Str(_)
Str(n) == IF n < 10 THEN << DigitChars[n + 1] >>
          ELSE Str(n \div 10) \o << DigitChars[(n % 10) + 1] >>

\* Truthiness of an optional string / dict / figure: None and "" are falsy.
Truthy(opt) == opt # <<>> /\ opt[1] # <<>>

NameTxt == <<"a", ".", "t", "x", "t">>
NameBad == <<"b", ".", "t", "x", "t">>

\* The files the user can put in the uploader: two good scans with the same
\* name, one whose data line does not convert, one that is not UTF-8.
UploadCandidates ==
    { [name |-> NameTxt, content |-> <<LnLevel1, Ln0_500>>, id |-> 1, decodes |-> TRUE],
      [name |-> NameTxt, content |-> <<LnLevel1, Ln0_600>>, id |-> 2, decodes |-> TRUE],
      [name |-> NameBad, content |-> <<LnLevel1, Ln0_abc>>, id |-> 3, decodes |-> TRUE],
      [name |-> NameBad, content |-> <<>>,                  id |-> 4, decodes |-> FALSE] }

\* What the user can type in "Save As:".
NameInputs ==
    { <<>>,
      <<"A">>,
      <<" ", "A", " ">>,
      <<"a", " ", "-", " ", "S", "c", "a", "n", " ", "2">> }

\* process_lidar_data_and_generate_heatmap(file_content): the parse loop over
\* the lines, then the no-data check; the figure is identified by the
\* content it was drawn from, None is <<>>.
RECURSIVE UiParseFrom(_, _, _, _)
\* The loop after line i gave r.
UiParseNext(content, i, lv, n, r) ==
    IF r.kind = "abort" THEN -1
    ELSE IF r.kind = "level" THEN UiParseFrom(content, i + 1, << r.value >>, n)
    ELSE IF r.kind = "reading" THEN UiParseFrom(content, i + 1, lv, n + 1)
    ELSE UiParseFrom(content, i + 1, lv, n)

UiParseFrom(content, i, lv, n) ==
    IF i > Len(content) THEN n
    ELSE UiParseNext(content, i, lv, n, UiLine(Strip(content[i]), lv))

\* The value returned for a parse that ended with n readings (-1: aborted).
FigureOf(content, n) ==
    IF n = -1 \/ NoData([ k \in 1..n |-> 1 ]) THEN <<>> ELSE << content >>

process_lidar_data_and_generate_heatmap(content) ==
    FigureOf(content, UiParseFrom(content, 1, <<>>, 0))

NoClick == [ ev |-> "none", input |-> <<>> ]

\* on_select_saved: the callback of the selectbox.
on_select_saved(s, sel) ==
    IF sel \in DOMAIN s.saved_scans
    THEN [s EXCEPT !.selected_saved_scan_name = << sel >>,
                   !.view_mode = "saved",
                   !.latest_run_figure = <<>>]
    ELSE [s EXCEPT !.selected_saved_scan_name = <<>>,
                   !.view_mode = "none"]

\* The uploader block: store a new file, or reset on a decode error.
UploadBlock(s, uf) ==
    IF uf # <<>>
       /\ (s.uploaded_file_state = <<>> \/ uf[1].id # s.uploaded_file_state[1].id)
    THEN IF uf[1].decodes
         THEN [s EXCEPT !.uploaded_file_state =
                   << [name |-> uf[1].name, content |-> uf[1].content, id |-> uf[1].id] >>]
         ELSE [s EXCEPT !.uploaded_file_state = <<>>]
    ELSE s

\* What "New Analysis" does with the value process_lidar_data_and_generate_heatmap
\* returned: show it and st.rerun(), or clear the view.
ShowNewFigure(s, new_figure) ==
    IF new_figure # <<>>
    THEN [s |-> [s EXCEPT !.latest_run_figure = new_figure,
                          !.view_mode = "latest",
                          !.selected_saved_scan_name = <<>>,
                          !.just_saved = FALSE],
          rerun |-> TRUE]
    ELSE [s |-> [s EXCEPT !.latest_run_figure = <<>>,
                          !.view_mode = "none"],
          rerun |-> FALSE]

\* The "New Analysis" button.
NewAnalysis(s, clicked) ==
    IF clicked /\ s.uploaded_file_state # <<>>
    THEN ShowNewFigure(s, process_lidar_data_and_generate_heatmap(s.uploaded_file_state[1].content))
    ELSE [s |-> s, rerun |-> FALSE]

Without(scans, name) == [ n \in DOMAIN scans \ {name} |-> scans[n] ]

\* The Delete button leaves the selection in place.
DeleteKeepsSelection(s) ==
    [s EXCEPT !.view_mode = "none",
              !.latest_run_figure = <<>>]

\* The reset after `del saved_scans[selected]`.
DeleteReset(s) ==
    [s EXCEPT !.view_mode = "none",
              !.selected_saved_scan_name = <<>>,
              !.latest_run_figure = <<>>]

\* The "Saved Scans" section: the selectbox and the Delete button. A `del`
\* of a missing key raises KeyError and ends the run.
SavedScansSection(s, click) ==
    IF DOMAIN s.saved_scans # {}
    THEN LET options == { <<>> } \cup DOMAIN s.saved_scans
             drawn   == Truthy(s.selected_saved_scan_name)
             label   == IF drawn THEN s.selected_saved_scan_name ELSE <<>>
             pressed == drawn /\ click.ev = "delete" /\ click.input = label[1]
         IN  IF ~pressed
             THEN [s |-> s, rerun |-> FALSE, keyError |-> FALSE,
                   options |-> options, delete |-> label]
             ELSE IF label[1] \notin DOMAIN s.saved_scans
             THEN [s |-> s, rerun |-> FALSE, keyError |-> TRUE,
                   options |-> options, delete |-> label]
             ELSE [s |-> DeleteReset([s EXCEPT !.saved_scans = Without(s.saved_scans, label[1])]),
                   rerun |-> TRUE, keyError |-> FALSE,
                   options |-> options, delete |-> label]
    ELSE [s |-> s, rerun |-> FALSE, keyError |-> FALSE, options |-> {}, delete |-> <<>>]

ScanN(s) == <<"S", "c", "a", "n", " ">> \o Str(s.scan_counter)

default_name(s) ==
    IF s.uploaded_file_state # <<>>
    THEN SplitOn(s.uploaded_file_state[1].name, ".")[1] \o <<" ", "-", " ">> \o ScanN(s)
    ELSE ScanN(s)

\* final_name = name_input.strip() or default_name
final_name(s, name_input) ==
    IF Strip(name_input) # <<>> THEN Strip(name_input) ELSE default_name(s)

\* The duplicate check is left out: every name is free.
NameTakenNever(s, name) == FALSE

\* `if final_name in st.session_state.saved_scans`
NameTaken(s, name) == name \in DOMAIN s.saved_scans

\* saved_scans[final_name] = latest_run_figure
Put(scans, name, fig) ==
    [ n \in DOMAIN scans \cup {name} |-> IF n = name THEN fig ELSE scans[n] ]

\* The main area: latest view with the save expander, saved view, placeholder.
MainArea(s, click) ==
    IF s.view_mode = "latest" /\ Truthy(s.latest_run_figure)
    THEN IF click.ev = "save" /\ ~NameTaken(s, final_name(s, click.input))
         THEN [s |-> [s EXCEPT !.saved_scans = Put(s.saved_scans, final_name(s, click.input),
                                                   s.latest_run_figure[1]),
                               !.scan_counter = s.scan_counter + 1,
                               !.just_saved = TRUE,
                               !.view_mode = "none",
                               !.selected_saved_scan_name = <<>>,
                               !.latest_run_figure = <<>>],
               rerun |-> TRUE, notFound |-> FALSE, save |-> TRUE]
         ELSE [s |-> s, rerun |-> FALSE, notFound |-> FALSE, save |-> TRUE]
    ELSE IF s.view_mode = "saved" /\ Truthy(s.selected_saved_scan_name)
    THEN IF s.selected_saved_scan_name[1] \in DOMAIN s.saved_scans
         THEN [s |-> s, rerun |-> FALSE, notFound |-> FALSE, save |-> FALSE]
         ELSE [s |-> [s EXCEPT !.view_mode = "none",
                               !.selected_saved_scan_name = <<>>],
               rerun |-> FALSE, notFound |-> TRUE, save |-> FALSE]
    ELSE [s |-> [s EXCEPT !.just_saved = FALSE],
          rerun |-> FALSE, notFound |-> FALSE, save |-> FALSE]

\* What a run that reached the end of the script has drawn: b from the
\* sidebar, c from the main area.
Drawn(b, c) ==
    [s |-> c.s, rerun |-> c.rerun, keyError |-> FALSE, notFound |-> c.notFound,
     rendered |-> [options |-> b.options, delete |-> b.delete, save |-> c.save]]

\* After the "Saved Scans" section (b): the run ends there on st.rerun() or
\* on the uncaught KeyError, else it goes on to the main area.
AfterSavedScans(b, click) ==
    IF b.rerun \/ b.keyError
    THEN [s |-> b.s, rerun |-> b.rerun, keyError |-> b.keyError, notFound |-> FALSE,
          rendered |-> [options |-> b.options, delete |-> b.delete, save |-> FALSE]]
    ELSE Drawn(b, MainArea(b.s, click))

\* After the "New Analysis" button (a): the run ends there on st.rerun(),
\* else it goes on to the "Saved Scans" section.
AfterNewAnalysis(a, click) ==
    IF a.rerun
    THEN [s |-> a.s, rerun |-> TRUE, keyError |-> FALSE, notFound |-> FALSE,
          rendered |-> NothingRendered]
    ELSE AfterSavedScans(SavedScansSection(a.s, click), click)

\* One run of the script, top to bottom, stopping at st.rerun() or at an
\* uncaught exception.
Script(s, uf, click) ==
    AfterNewAnalysis(NewAnalysis(UploadBlock(s, uf), click.ev = "new"), click)

\* What the run r and the fresh run q after it leave behind.
Merged(r, q) ==
    [q EXCEPT !.keyError = r.keyError \/ q.keyError,
              !.notFound = r.notFound \/ q.notFound]

\* st.rerun(): a run that asked for it is followed by a fresh run, no click.
Rerun(r, uf) ==
    IF r.rerun THEN Merged(r, Script(r.s, uf, NoClick)) ELSE r

\* The run an event causes, followed by the fresh run of st.rerun().
Run(s, uf, click) == Rerun(Script(s, uf, click), uf)

\* The state an event leaves behind, with the history of what happened.
Settle(r, click) ==
    /\ session_state' = r.s
    /\ rendered' = r.rendered
    /\ history' =
         [ last     |-> click,
           saves    |-> history.saves
                        + (IF DOMAIN r.s.saved_scans \ DOMAIN session_state.saved_scans # {}
                           THEN 1 ELSE 0),
           keyError |-> history.keyError \/ r.keyError,
           notFound |-> history.notFound \/ r.notFound ]
    /\ UNCHANGED pipelineVars

\* The user puts a file in the uploader, or removes it.
UploadFile ==
    \E uf \in { <<>> } \cup { << f >> : f \in UploadCandidates } :
        /\ uf # uploaded_file
        /\ uploaded_file' = uf
        /\ Settle(Run(session_state, uf, NoClick), [ev |-> "upload", input |-> <<>>])

ClickNewAnalysis ==
    /\ uploaded_file' = uploaded_file
    /\ Settle(Run(session_state, uploaded_file, [ev |-> "new", input |-> <<>>]),
              [ev |-> "new", input |-> <<>>])

\* The user picks an option of the selectbox: the callback, then the rerun.
SelectSaved ==
    \E sel \in rendered.options :
        /\ uploaded_file' = uploaded_file
        /\ Settle(Run(on_select_saved(session_state, sel), uploaded_file, NoClick),
                  [ev |-> "select", input |-> sel])

ClickDelete ==
    /\ rendered.delete # <<>>
    /\ uploaded_file' = uploaded_file
    /\ Settle(Run(session_state, uploaded_file, [ev |-> "delete", input |-> rendered.delete[1]]),
              [ev |-> "delete", input |-> rendered.delete[1]])

ClickSave ==
    /\ rendered.save
    /\ session_state.scan_counter <= MaxSaves
    /\ \E name_input \in NameInputs :
        /\ uploaded_file' = uploaded_file
        /\ Settle(Run(session_state, uploaded_file, [ev |-> "save", input |-> name_input]),
                  [ev |-> "save", input |-> name_input])

NextUi == UploadFile \/ ClickNewAnalysis \/ SelectSaved \/ ClickDelete \/ ClickSave

InitUi == InitWith({ <<>> }) /\ prog = "Ui"

SpecUi == InitUi /\ [][NextUi]_vars


\* ---------------------------------------------------------------------------
\* Claims about the app's session state.
\* ---------------------------------------------------------------------------

selected_saved_scan_name == session_state.selected_saved_scan_name

saved_scans == session_state.saved_scans

\* C11: over any sequence of events (New Analysis that succeeds or fails,
\* selecting a saved scan, Save Analysis, Delete), selected_saved_scan_name
\* is None or a key now in saved_scans; so Delete never removes a missing
\* key (no KeyError), view_mode "saved" always has a stored scan to show,
\* and the "Selected saved scan not found" branch is never taken.
C11_SelectionIsSavedKey ==
    /\ selected_saved_scan_name = <<>> \/ selected_saved_scan_name[1] \in DOMAIN saved_scans
    /\ ~history.keyError
    /\ session_state.view_mode = "saved" =>
          /\ selected_saved_scan_name # <<>>
          /\ selected_saved_scan_name[1] \in DOMAIN saved_scans
    /\ ~history.notFound

\* A scan was selected and deleted while another one stays saved.
C11_Witness ==
    /\ history.last.ev = "delete"
    /\ history.last.input \notin DOMAIN saved_scans
    /\ DOMAIN saved_scans # {}
    /\ selected_saved_scan_name = <<>>

\* A failed New Analysis left the selection on a saved scan, outside the
\* saved view.
C11_FailedAnalysisKeepsSelection ==
    /\ history.last.ev = "new"
    /\ selected_saved_scan_name # <<>>
    /\ session_state.view_mode = "none"


\* The event of the step is a click on "Save Analysis".
SaveClicked == history'.last.ev = "save"

\* The final name of that click, from the state the click found.
SavedAs == final_name(session_state, history'.last.input)

C12_SaveStep ==
    LET s == session_state
        t == session_state'
    IN  /\ SaveClicked /\ SavedAs \in DOMAIN s.saved_scans =>
              /\ t.saved_scans = s.saved_scans
              /\ t.scan_counter = s.scan_counter
              /\ t.view_mode = s.view_mode
              /\ t.latest_run_figure = s.latest_run_figure
        /\ SaveClicked /\ SavedAs \notin DOMAIN s.saved_scans =>
              /\ DOMAIN t.saved_scans = DOMAIN s.saved_scans \cup { SavedAs }
              /\ t.saved_scans[SavedAs] = s.latest_run_figure[1]
              /\ t.scan_counter = s.scan_counter + 1
        /\ ~SaveClicked => t.scan_counter = s.scan_counter
        /\ \A n \in DOMAIN s.saved_scans :
              \/ n \in DOMAIN t.saved_scans /\ t.saved_scans[n] = s.saved_scans[n]
              \/ n \notin DOMAIN t.saved_scans /\ history'.last.ev = "delete"
        /\ t.scan_counter = 1 + history'.saves

\* C12: Save Analysis never overwrites a saved scan: when the final name is
\* already a key of saved_scans, then saved_scans, scan_counter, view_mode
\* and latest_run_figure are unchanged; otherwise exactly one entry (the
\* latest figure under the final name) is added and scan_counter grows by
\* exactly 1; so scan_counter is always 1 plus the number of successful
\* saves, and an entry of saved_scans changes only by being deleted.
C12_SaveNeverOverwrites == [][C12_SaveStep]_vars

\* Save Analysis was clicked with a final name that is already saved: the
\* latest view is still shown, beside at least one earlier successful save.
C12_Witness ==
    /\ history.last.ev = "save"
    /\ final_name(session_state, history.last.input) \in DOMAIN saved_scans
    /\ session_state.view_mode = "latest"
    /\ session_state.latest_run_figure # <<>>
    /\ history.saves >= 1
    /\ session_state.scan_counter = 1 + history.saves

\* The same, with the default name as the final name and a figure that is
\* not the one already stored under it.
C12_DefaultNameTaken ==
    /\ C12_Witness
    /\ history.last.input = <<>>
    /\ saved_scans[default_name(session_state)] # session_state.latest_run_figure[1]

====
